---- MODULE Spec2Model ----
(***************************************************************************)
(* A model of the XCS learning classifier system: the Population with its  *)
(* capacity trim and merge-on-insert, the performance component (match     *)
(* set, covering, action selection), the learning component, the genetic   *)
(* algorithm and the run/reward protocol of the XCS engine.                *)
(*                                                                         *)
(* Classifiers are Python objects that several collections reference at    *)
(* once (the Population, a pending action set), so the model keeps a heap  *)
(* of classifier records indexed by object identity; the collections are   *)
(* sequences of identities.  Python floats are modelled as exact rational  *)
(* numbers <<numerator, denominator>>.                                     *)
(***************************************************************************)
EXTENDS Integers, Sequences, FiniteSets, TLC

VARIABLES heap, pop, max_size, expects_reward, current_state, prev_state,
          iteration, last, conditions

vars == <<heap, pop, max_size, expects_reward, current_state, prev_state,
          iteration, last, conditions>>

-----------------------------------------------------------------------------
(* Exact arithmetic standing in for Python's float arithmetic.             *)

Abs(n) == IF n < 0 THEN -n ELSE n

RECURSIVE GCD(_, _)
GCD(a, b) == IF b = 0 THEN a ELSE GCD(b, a % b)

Norm(n, d) == LET g == GCD(Abs(n), d) IN <<n \div g, d \div g>>

Q(n) == <<n, 1>>
Frac(n, d) == Norm(n, d)
Zero == Q(0)
One == Q(1)

RAdd(a, b) == Norm(a[1] * b[2] + b[1] * a[2], a[2] * b[2])
RSub(a, b) == Norm(a[1] * b[2] - b[1] * a[2], a[2] * b[2])
RMul(a, b) == Norm(a[1] * b[1], a[2] * b[2])
RDiv(a, b) == IF b[1] > 0 THEN Norm(a[1] * b[2], a[2] * b[1])
                          ELSE Norm(-(a[1] * b[2]), a[2] * (-b[1]))
RAbs(a) == <<Abs(a[1]), a[2]>>
RLt(a, b) == a[1] * b[2] < b[1] * a[2]
RLe(a, b) == a[1] * b[2] <= b[1] * a[2]

RECURSIVE SumSeq(_)
SumSeq(s) == IF s = <<>> THEN 0 ELSE Head(s) + SumSeq(Tail(s))

RECURSIVE RSumSeq(_)
RSumSeq(s) == IF s = <<>> THEN Zero ELSE RAdd(Head(s), RSumSeq(Tail(s)))

Range(s) == {s[i] : i \in DOMAIN s}

RemoveAt(s, i) == SubSeq(s, 1, i - 1) \o SubSeq(s, i + 1, Len(s))

-----------------------------------------------------------------------------
(* Symbols, conditions and states.                                         *)

WILDCARD_CHAR == "#"

\* The values a state position can take.
SymbolValues == {"0", "1"}

\* The states the environment presents.
States == {<<"0">>}

\* Length of the states (and conditions) of the modelled problem.
StateLen == Len(CHOOSE state \in States : TRUE)

AvailableActions == {0, 1}

\* None, for an action.
NoAction == -1

Symbols == SymbolValues \cup {WILDCARD_CHAR}

Conditions == [1..StateLen -> Symbols]

\* WildcardSymbol.matches / Symbol.matches (state values are never None).
SymbolMatches(sym, value) ==
    IF sym = WILDCARD_CHAR THEN TRUE ELSE sym = value

\* Condition.matches
Matches(condition, state) ==
    \A i \in 1..Len(condition) : SymbolMatches(condition[i], state[i])

\* A relation that also holds between equal conditions.
IsAtLeastAsGeneral(c, o) ==
    \A i \in 1..Len(c) : c[i] # o[i] => c[i] = WILDCARD_CHAR

\* A comparison that only looks for a position where the two differ.
DiffersSomewhere(c, o) == \E i \in 1..Len(c) : c[i] # o[i]

\* Condition.is_more_general: some position differs, and wherever the two
\* differ this condition holds a wildcard.
IsMoreGeneral(c, o) ==
    /\ \A i \in 1..Len(c) : c[i] # o[i] => c[i] = WILDCARD_CHAR
    /\ \E i \in 1..Len(c) : c[i] # o[i]

\* The value that stands for None where a Condition is expected.
None == <<"None">>

\* Condition.is_more_general as called: other.condition fails on None, the
\* assertion on unequal lengths.
IsMoreGeneralOutcome(c, o) ==
    IF o = None THEN [err |-> "AttributeError", result |-> FALSE]
    ELSE IF Len(c) # Len(o) THEN [err |-> "AssertionError", result |-> FALSE]
    ELSE [err |-> "ok", result |-> IsMoreGeneral(c, o)]

-----------------------------------------------------------------------------
(* Classifiers.                                                            *)

\* Initial statistics of a new classifier.
FitnessInit == Zero
PredictionInit == Zero
EpsilonInit == Zero

\* The value of timestamp_since_ga that stands for "attribute not set": the GA
\* reads the attribute with getattr(cl, TIMESTAMP, False).
Untagged == -1

\* Classifier.__init__
NewClassifier(condition, action) ==
    [condition |-> condition, action |-> action, experience |-> 0,
     fitness |-> FitnessInit, numerosity |-> 1, prediction |-> PredictionInit,
     epsilon |-> EpsilonInit, action_set_size |-> One,
     timestamp_since_ga |-> Untagged]

\* Classifier.subsumes
Subsumes(cl, other) ==
    cl.action = other.action /\ IsMoreGeneral(cl.condition, other.condition)

\* getattr(object, name, default) on an object given as a record of its
\* attributes.
GetAttr(object, name, default) ==
    IF name \in DOMAIN object THEN object[name] ELSE default

\* Classifier.subsumes as called with any object: the action comparison
\* short-circuits the call of is_more_general.
SubsumesOutcome(cl, other) ==
    IF cl.action # GetAttr(other, "action", NoAction)
    THEN [err |-> "ok", result |-> FALSE]
    ELSE IsMoreGeneralOutcome(cl.condition, GetAttr(other, "condition", None))

\* SubsumptionCriteria: minimum experience and maximum error of a subsumer.
min_exp == 1
max_epsilon == Zero

\* SubsumptionCriteria.can_subsume
CanSubsume(cl) ==
    cl.experience >= min_exp /\ RLe(cl.epsilon, max_epsilon)

\* The smallest object identity not in use.
FreshId(h) == CHOOSE i \in 1..(Cardinality(DOMAIN h) + 1) : i \notin DOMAIN h

\* Allocate object `cl`; the result is the extended heap.
Alloc(h, cl) == [i \in DOMAIN h \cup {FreshId(h)} |-> IF i \in DOMAIN h THEN h[i] ELSE cl]

-----------------------------------------------------------------------------
(* Selection strategies.                                                   *)

\* Cumulative sum of the first i scores.
RECURSIVE CumScore(_, _)
CumScore(scores, i) == IF i = 0 THEN Zero ELSE RAdd(CumScore(scores, i - 1), scores[i])

\* RouletteWheelSelection.select_classifier: the indices the wheel can return
\* over all draws random() in [0, 1).  Index i (1-based here) is returned when
\* the choice point lies in [CumScore(i-1), CumScore(i)) and below the total;
\* with no such index for any draw the method falls off its loop and returns
\* None, which is the empty set here.
RouletteWheel(scores) ==
    {i \in 1..Len(scores) :
        /\ RLt(CumScore(scores, i - 1), CumScore(scores, i))
        /\ RLt(CumScore(scores, i - 1), CumScore(scores, Len(scores)))}

-----------------------------------------------------------------------------
(* ClassifierSet and Population.  A population state is a record           *)
(* [heap, pop, max_size]; operations that draw random numbers yield the    *)
(* set of their possible outcomes [ps, err].                               *)

\* ClassifierSet.numerosity_sum
NumerositySum(h, s) == SumSeq([i \in 1..Len(s) |-> h[s[i]].numerosity])

\* ClassifierSet.get_available_actions
GetAvailableActions(h, s) == {h[s[i]].action : i \in 1..Len(s)}

\* Population: experience threshold and fitness fraction of the deletion vote.
deletion_exp_threshold == 20
deletion_fitness_fraction == Frac(1, 10)

\* `numerosity_sum := self.numerosity_sum() > desired_size` binds the walrus
\* target to the comparison's value: inside the loop numerosity_sum is True (1).
WalrusNumerositySum(h, s, desired_size) ==
    IF NumerositySum(h, s) > desired_size THEN 1 ELSE 0

AverageFitness(h, s, desired_size) ==
    RDiv(RSumSeq([i \in 1..Len(s) |-> h[s[i]].fitness]),
         Q(WalrusNumerositySum(h, s, desired_size)))

\* deletion_vote of trim_population
DeletionVote(cl, average_fitness) ==
    LET vote == RMul(cl.action_set_size, Q(cl.numerosity)) IN
    IF /\ RLt(Zero, average_fitness)
       /\ RLt(Zero, cl.fitness)
       /\ cl.experience > deletion_exp_threshold
       /\ RLt(RDiv(cl.fitness, Q(cl.numerosity)),
              RMul(deletion_fitness_fraction, average_fitness))
    THEN RMul(vote, RDiv(average_fitness, RDiv(cl.fitness, Q(cl.numerosity))))
    ELSE vote

\* A deletion step that removes the selected record whatever its numerosity.
DeleteWholeRecord(ps, i) == [ps EXCEPT !.pop = RemoveAt(ps.pop, i)]

\* A deletion step that takes one from the numerosity of the selected record
\* and never removes the record.
DecrementAt(ps, i) == [ps EXCEPT !.heap[ps.pop[i]].numerosity = @ - 1]

\* One deletion step of trim_population on record index i.
DeleteAt(ps, i) ==
    IF ps.heap[ps.pop[i]].numerosity > 1
    THEN [ps EXCEPT !.heap[ps.pop[i]].numerosity = @ - 1]
    ELSE [ps EXCEPT !.pop = RemoveAt(ps.pop, i)]

\* The loop condition of trim_population.
TrimGuard(ps, desired_size) == NumerositySum(ps.heap, ps.pop) > desired_size

\* Population.trim_population.  With nothing selectable the wheel returns
\* None and self[None] raises TypeError.
RECURSIVE TrimPopulation(_, _)
TrimPopulation(ps, desired_size) ==
    IF TrimGuard(ps, desired_size)
    THEN LET avg == AverageFitness(ps.heap, ps.pop, desired_size)
             scores == [i \in 1..Len(ps.pop) |-> DeletionVote(ps.heap[ps.pop[i]], avg)]
             sel == RouletteWheel(scores)
         IN IF sel = {}
            THEN {[ps |-> ps, err |-> "TypeError"]}
            ELSE UNION {TrimPopulation(DeleteAt(ps, i), desired_size) : i \in sel}
    ELSE {[ps |-> ps, err |-> "ok"]}

\* kwargs.get(key, default)
KwargsGet(kwargs, key, default) ==
    IF key \in DOMAIN kwargs THEN kwargs[key] ELSE default

\* The keyword insert_classifier reads its subsumption switch from.
SubsumptionKeyword == "subsumption"

\* insert_classifier without the scan for the same classifier.
NoSameClassifier(ps, cl) == 0

\* Index of the first record with the same condition and action, 0 if none.
SameClassifierIndex(ps, cl) ==
    LET eq == {i \in 1..Len(ps.pop) :
                  /\ ps.heap[ps.pop[i]].condition = cl.condition
                  /\ ps.heap[ps.pop[i]].action = cl.action}
    IN IF eq = {} THEN 0 ELSE CHOOSE i \in eq : \A j \in eq : i <= j

\* Index of the first record that subsumes cl and may subsume, 0 if none.
SubsumerIndex(ps, cl) ==
    LET su == {i \in 1..Len(ps.pop) :
                  /\ Subsumes(ps.heap[ps.pop[i]], cl)
                  /\ CanSubsume(ps.heap[ps.pop[i]])}
    IN IF su = {} THEN 0 ELSE CHOOSE i \in su : \A j \in su : i <= j

\* insert_classifier after the capacity trim: merge, subsume or append.
\* Object id is already allocated in ps.heap.
InsertAfterTrim(ps, id, kwargs) ==
    LET cl == ps.heap[id]
        same == SameClassifierIndex(ps, cl)
        do_subsumption == KwargsGet(kwargs, SubsumptionKeyword, FALSE)
        subsumer == SubsumerIndex(ps, cl)
    IN IF same # 0
       THEN [ps EXCEPT !.heap[ps.pop[same]].numerosity = @ + cl.numerosity]
       ELSE IF do_subsumption /\ subsumer # 0
       THEN [ps EXCEPT !.heap[ps.pop[subsumer]].numerosity = @ + cl.numerosity]
       ELSE [ps EXCEPT !.pop = Append(ps.pop, id)]

\* Whether insert_classifier has to trim first.
InsertNeedsTrim(ps, id) ==
    NumerositySum(ps.heap, ps.pop) + ps.heap[id].numerosity > ps.max_size

\* Population.insert_classifier
InsertClassifier(ps, id, kwargs) ==
    LET trimmed == IF InsertNeedsTrim(ps, id)
                   THEN TrimPopulation(ps, ps.max_size - ps.heap[id].numerosity)
                   ELSE {[ps |-> ps, err |-> "ok"]}
    IN {IF t.err = "ok"
        THEN [ps |-> InsertAfterTrim(t.ps, id, kwargs), err |-> "ok"]
        ELSE t : t \in trimmed}

-----------------------------------------------------------------------------
(* Covering and the performance component.                                 *)

\* CoveringConstants.wildcard_probability
wildcard_probability == Frac(1, 3)

\* PerformanceComponent: number of distinct actions below which covering runs.
min_diff_actions == 2

\* covering_operation for one action: each position becomes a wildcard when
\* random() < wildcard_probability and the state's symbol otherwise.
CoverConditions(state) ==
    {c \in Conditions :
        \A i \in 1..StateLen :
            \/ c[i] = WILDCARD_CHAR /\ RLt(Zero, wildcard_probability)
            \/ c[i] = state[i] /\ RLt(wildcard_probability, One)}

\* The orders in which the first k of the shuffled remaining actions come.
RECURSIVE ShuffledPrefixes(_, _)
ShuffledPrefixes(actions, k) ==
    IF k = 0 \/ actions = {} THEN {<<>>}
    ELSE UNION {{<<a>> \o rest : rest \in ShuffledPrefixes(actions \ {a}, k - 1)} :
                a \in actions}

\* The matching classifiers of the population, in population order.
RECURSIVE MatchingClassifiers(_, _, _)
MatchingClassifiers(h, s, state) ==
    IF s = <<>> THEN <<>>
    ELSE (IF Matches(h[Head(s)].condition, state) THEN <<Head(s)>> ELSE <<>>)
         \o MatchingClassifiers(h, Tail(s), state)

\* The covering loop of generate_match_set over the chosen actions: every
\* covered classifier goes into the match set and into the population.
RECURSIVE CoverLoop(_, _, _, _, _)
CoverLoop(ps, match_set, covered, state, actions) ==
    IF actions = <<>>
    THEN {[ps |-> ps, match_set |-> match_set, covered |-> covered, err |-> "ok"]}
    ELSE UNION {
           LET cl == NewClassifier(c, Head(actions))
               id == FreshId(ps.heap)
               ps1 == [ps EXCEPT !.heap = Alloc(ps.heap, cl)]
           IN UNION {
                IF r.err = "ok"
                THEN CoverLoop(r.ps, Append(match_set, id), Append(covered, id),
                               state, Tail(actions))
                ELSE {[ps |-> r.ps, match_set |-> Append(match_set, id),
                       covered |-> Append(covered, id), err |-> r.err]}
                : r \in InsertClassifier(ps1, id, <<>>)}
           : c \in CoverConditions(state)}

\* How many of the remaining actions generate_match_set covers.
NumToCover(actions) ==
    IF Cardinality(actions) < min_diff_actions /\ min_diff_actions > 0
    THEN min_diff_actions - Cardinality(actions)
    ELSE 0

\* PerformanceComponent.generate_match_set
GenerateMatchSet(ps, state) ==
    LET match_set == MatchingClassifiers(ps.heap, ps.pop, state)
        actions == GetAvailableActions(ps.heap, match_set)
        remaining == AvailableActions \ actions
    IN UNION {CoverLoop(ps, match_set, <<>>, state, order) :
                order \in ShuffledPrefixes(remaining, NumToCover(actions))}

\* sys.float_info.epsilon, the floor of the prediction array's divisor.  It
\* divides a numerator that is 0 whenever it is used (all fitness is 0).
float_info_epsilon == Frac(1, 1048576)

\* The actions of a set in order of first occurrence (dict insertion order).
RECURSIVE ActionOrder(_, _)
ActionOrder(h, s) ==
    IF s = <<>> THEN <<>>
    ELSE LET rest == ActionOrder(h, SubSeq(s, 1, Len(s) - 1))
             a == h[s[Len(s)]].action
         IN IF a \in Range(rest) THEN rest ELSE Append(rest, a)

\* The divisor of one action's prediction.
PredictionDivisor(fitness_sum) ==
    IF fitness_sum # Zero THEN fitness_sum ELSE float_info_epsilon

\* PerformanceComponent._generate_prediction_array, for one action.
PredictionOf(h, match_set, action) ==
    LET members == SelectSeq(match_set, LAMBDA id : h[id].action = action)
        weighted == RSumSeq([i \in 1..Len(members) |->
                        RMul(h[members[i]].prediction, h[members[i]].fitness)])
        fitness_sum == RSumSeq([i \in 1..Len(members) |-> h[members[i]].fitness])
    IN RDiv(weighted, PredictionDivisor(fitness_sum))

\* An exploit choice that takes the first action of the prediction array.
FirstAction(h, match_set) == ActionOrder(h, match_set)[1]

\* max(prediction_array, key=prediction_array.get): the first key, in
\* insertion order, whose value no other key exceeds.
BestAction(h, match_set) ==
    LET order == ActionOrder(h, match_set)
        best == CHOOSE i \in 1..Len(order) :
                  /\ \A j \in 1..Len(order) :
                        RLe(PredictionOf(h, match_set, order[j]),
                            PredictionOf(h, match_set, order[i]))
                  /\ \A j \in 1..(i - 1) :
                        RLt(PredictionOf(h, match_set, order[j]),
                            PredictionOf(h, match_set, order[i]))
    IN order[best]

\* PerformanceComponent.choose_action: the possible ChosenAction results; on
\* an empty match set choice() raises IndexError and max() raises ValueError.
ChooseAction(h, match_set, is_explore) ==
    IF match_set = <<>>
    THEN {[action |-> -1, expected_reward |-> Zero,
           err |-> IF is_explore THEN "IndexError" ELSE "ValueError"]}
    ELSE LET candidates == IF is_explore
                           THEN Range(ActionOrder(h, match_set))
                           ELSE {BestAction(h, match_set)}
         IN {[action |-> a, expected_reward |-> PredictionOf(h, match_set, a),
              err |-> "ok"] : a \in candidates}

-----------------------------------------------------------------------------
(* The learning component.                                                 *)

\* LearningConstants and FitnessConstants.
beta == Frac(1, 2)
epsilon_zero == Frac(1, 4)
alpha == Frac(1, 2)
nu == 1

RECURSIVE RPow(_, _)
RPow(a, n) == IF n = 0 THEN One ELSE RMul(a, RPow(a, n - 1))

\* The step of a classifier past the averaging phase, whatever its experience.
BetaStep(experience) == beta

\* The step of the Widrow-Hoff update for a classifier whose experience has
\* already been incremented.
LearningStep(experience) ==
    IF RLt(Q(experience), RDiv(One, beta)) THEN Frac(1, experience) ELSE beta

\* The statistics update of update_set for one classifier.
UpdateClassifier(cl, reward, set_numerosity) ==
    LET experience == cl.experience + 1
        step == LearningStep(experience)
    IN [cl EXCEPT
          !.experience = experience,
          !.epsilon = RAdd(cl.epsilon,
                           RMul(step, RSub(RAbs(RSub(reward, cl.prediction)), cl.epsilon))),
          !.prediction = RAdd(cl.prediction, RMul(step, RSub(reward, cl.prediction))),
          !.action_set_size = RAdd(cl.action_set_size,
                                   RMul(step, RSub(Q(set_numerosity), cl.action_set_size)))]

\* QLearningBasedComponent._classifier_accuracy; x ** -nu is 1 / x ** nu.
ClassifierAccuracy(cl) ==
    IF cl.experience = 0 THEN Zero
    ELSE IF RLe(cl.epsilon, epsilon_zero) THEN One
    ELSE RMul(alpha, RDiv(One, RPow(RDiv(cl.epsilon, epsilon_zero), nu)))

\* QLearningBasedComponent._update_fitness
UpdateFitness(h, s) ==
    LET accuracy_sum == RSumSeq([i \in 1..Len(s) |->
                            RMul(ClassifierAccuracy(h[s[i]]), Q(h[s[i]].numerosity))])
    IN [id \in DOMAIN h |->
          IF id \in Range(s)
          THEN [h[id] EXCEPT !.fitness =
                  RAdd(h[id].fitness,
                       RMul(beta,
                            RSub(RDiv(RMul(ClassifierAccuracy(h[id]), Q(h[id].numerosity)),
                                      accuracy_sum),
                                 h[id].fitness)))]
          ELSE h[id]]

\* QLearningBasedComponent.update_set
UpdateSet(h, s, reward) ==
    LET set_numerosity == NumerositySum(h, s)
        h1 == [id \in DOMAIN h |->
                 IF id \in Range(s) THEN UpdateClassifier(h[id], reward, set_numerosity)
                 ELSE h[id]]
    IN UpdateFitness(h1, s)

-----------------------------------------------------------------------------
(* The discovery component (genetic algorithm).                            *)

\* GAConstants.
mutation_rate == Frac(3, 100)
mutate_action == FALSE
fitness_reduction == Frac(1, 10)
crossover_probability == Frac(1, 2)
ga_threshold == 1
crossover_method == "TWO_POINT"

\* _should_run tags every member whose timestamp is missing or falsy (zero).
TagUntagged(h, s, timestamp) ==
    [id \in DOMAIN h |->
        IF id \in Range(s) /\ h[id].timestamp_since_ga \in {Untagged, 0}
        THEN [h[id] EXCEPT !.timestamp_since_ga = timestamp]
        ELSE h[id]]

\* The numerosity-weighted average timestamp of _should_run (on tagged members).
AverageTimestamp(h, s) ==
    RSumSeq([i \in 1..Len(s) |->
        RMul(RDiv(Q(h[s[i]].timestamp_since_ga), Q(NumerositySum(h, s))),
             Q(h[s[i]].numerosity))])

\* GeneticAlgorithm._should_run, evaluated after the members were tagged.
ShouldRun(h, s, timestamp) ==
    RLe(Q(ga_threshold), RSub(Q(timestamp), AverageTimestamp(h, s)))

\* A GA that leaves the members' timestamps as they are.
KeepTimestamps(h, s, timestamp) == h

\* GeneticAlgorithm._update_timestamps
UpdateTimestamps(h, s, timestamp) ==
    [id \in DOMAIN h |->
        IF id \in Range(s) THEN [h[id] EXCEPT !.timestamp_since_ga = timestamp]
        ELSE h[id]]

\* GeneticAlgorithm._generate_child
GenerateChild(parent, timestamp) ==
    [NewClassifier(parent.condition, parent.action) EXCEPT
        !.fitness = RDiv(parent.fitness, Q(parent.numerosity)),
        !.prediction = parent.prediction,
        !.epsilon = parent.epsilon,
        !.timestamp_since_ga = timestamp]

\* A swap that checks nothing and swaps nothing.
SwapNothing(condition1, condition2, same_object, from_index, to_index) ==
    [err |-> "ok", c1 |-> condition1, c2 |-> condition2]

\* GeneticAlgorithm._swap_symbols on positions from_index..to_index (1-based,
\* inclusive); same_object tells whether condition1 is condition2.  The
\* result is the pair of conditions, or the error raised.
SwapSymbols(condition1, condition2, same_object, from_index, to_index) ==
    IF condition1 = None \/ condition2 = None
    THEN [err |-> "NoneValueException", c1 |-> condition1, c2 |-> condition2]
    ELSE IF Len(condition1) = 0 \/ Len(condition2) = 0
    THEN [err |-> "EmptyCollectionException", c1 |-> condition1, c2 |-> condition2]
    ELSE IF Len(condition1) # Len(condition2)
    THEN [err |-> "ValueError", c1 |-> condition1, c2 |-> condition2]
    ELSE IF same_object
    THEN [err |-> "ValueError", c1 |-> condition1, c2 |-> condition2]
    ELSE IF from_index < 1 \/ from_index > Len(condition1)
            \/ to_index < 1 \/ to_index > Len(condition1)
    THEN [err |-> "OutOfRangeException", c1 |-> condition1, c2 |-> condition2]
    ELSE IF from_index > to_index
    THEN [err |-> "ValueError", c1 |-> condition1, c2 |-> condition2]
    ELSE [err |-> "ok",
          c1 |-> [i \in 1..Len(condition1) |->
                    IF from_index <= i /\ i <= to_index THEN condition2[i]
                    ELSE condition1[i]],
          c2 |-> [i \in 1..Len(condition1) |->
                    IF from_index <= i /\ i <= to_index THEN condition1[i]
                    ELSE condition2[i]]]

\* The index pairs _one_point_crossover passes to _swap_symbols: a from_index
\* out of randint(0, len - 1) and len(condition) as the 0-based end index,
\* which is position len + 1 here.
OnePointRanges(len) == {<<f, len + 1>> : f \in 1..len}

\* The index pairs the configured crossover method passes to _swap_symbols.
CrossoverRanges(len) ==
    IF crossover_method = "ONE_POINT"
    THEN OnePointRanges(len)
    ELSE {<<IF f > t THEN t ELSE f, IF f > t THEN f ELSE t>> : f \in 1..len, t \in 1..len}

\* The statistics both children get after a crossover that swapped something.
AverageChildren(cl1, cl2) ==
    [prediction |-> RDiv(RAdd(cl1.prediction, cl2.prediction), Q(2)),
     epsilon |-> RDiv(RAdd(cl1.epsilon, cl2.epsilon), Q(2)),
     fitness |-> RDiv(RAdd(cl1.fitness, cl2.fitness), Q(2))]

\* The fitness of a child after the reduction that ends _crossover.
ReduceFitness(cl) == [cl EXCEPT !.fitness = RMul(cl.fitness, fitness_reduction)]

\* GeneticAlgorithm._crossover with the two-point (or one-point) method: the
\* possible pairs of children, or the error _swap_symbols raised.
Crossover(cl1, cl2) ==
    (IF RLt(crossover_probability, One)
     THEN {[err |-> "ok", c1 |-> ReduceFitness(cl1), c2 |-> ReduceFitness(cl2)]}
     ELSE {})
    \cup
    (IF RLt(Zero, crossover_probability)
     THEN {LET sw == SwapSymbols(cl1.condition, cl2.condition, FALSE, r[1], r[2])
               avg == AverageChildren(cl1, cl2)
           IN IF sw.err # "ok"
              THEN [err |-> sw.err, c1 |-> cl1, c2 |-> cl2]
              ELSE [err |-> "ok",
                    c1 |-> ReduceFitness([cl1 EXCEPT !.condition = sw.c1,
                              !.prediction = avg.prediction, !.epsilon = avg.epsilon,
                              !.fitness = avg.fitness]),
                    c2 |-> ReduceFitness([cl2 EXCEPT !.condition = sw.c2,
                              !.prediction = avg.prediction, !.epsilon = avg.epsilon,
                              !.fitness = avg.fitness])]
           : r \in CrossoverRanges(Len(cl1.condition))}
     ELSE {})

\* The sets of positions _mutate may toggle.
MutationMasks(len) ==
    {m \in SUBSET (1..len) :
        /\ (m # {} => RLt(Zero, mutation_rate))
        /\ (m # 1..len => RLt(mutation_rate, One))}

\* A mutation that ignores the state: a wildcard becomes the symbol "1", any
\* other symbol becomes a wildcard.
MutateBlind(cl, state, mask) ==
    [cl EXCEPT !.condition =
        [i \in 1..Len(cl.condition) |->
            IF i \in mask
            THEN (IF cl.condition[i] = WILDCARD_CHAR THEN "1" ELSE WILDCARD_CHAR)
            ELSE cl.condition[i]]]

\* GeneticAlgorithm._mutate on the positions of mask (the action is left
\* alone, mutate_action being off): a wildcard becomes the state's symbol,
\* any other symbol becomes a wildcard.
Mutate(cl, state, mask) ==
    [cl EXCEPT !.condition =
        [i \in 1..Len(cl.condition) |->
            IF i \in mask
            THEN (IF cl.condition[i] = WILDCARD_CHAR THEN state[i] ELSE WILDCARD_CHAR)
            ELSE cl.condition[i]]]

\* GeneticAlgorithm.discover: the possible outcomes [heap, children, ran, err].
Discover(h, timestamp, state, s) ==
    IF Len(state) = 0 \/ Len(s) = 0
    THEN {[heap |-> h, children |-> <<>>, ran |-> FALSE, err |-> "EmptyCollectionException"]}
    ELSE
    LET h1 == TagUntagged(h, s, timestamp)
        parents == RouletteWheel([i \in 1..Len(s) |-> h1[s[i]].fitness])
    IN IF ~ShouldRun(h1, s, timestamp)
       THEN {[heap |-> h1, children |-> <<>>, ran |-> FALSE, err |-> "ok"]}
       ELSE IF parents = {}
       THEN {[heap |-> h1, children |-> <<>>, ran |-> TRUE, err |-> "TypeError"]}
       ELSE UNION {UNION {
              IF x.err # "ok"
              THEN {[heap |-> h1, children |-> <<>>, ran |-> TRUE, err |-> x.err]}
              ELSE {[heap |-> UpdateTimestamps(h1, s, timestamp),
                     children |-> <<Mutate(x.c1, state, m1), Mutate(x.c2, state, m2)>>,
                     ran |-> TRUE, err |-> "ok"]
                    : m1 \in MutationMasks(Len(state)), m2 \in MutationMasks(Len(state))}
              : x \in Crossover(GenerateChild(h1[s[p[1]]], timestamp),
                                GenerateChild(h1[s[p[2]]], timestamp))}
            : p \in parents \X parents}

-----------------------------------------------------------------------------
(* The XCS engine.                                                         *)

\* XCSConstants.
max_iterations == 1
gamma == Frac(1, 2)
do_learning_subsumption == TRUE
do_discovery_subsumption == TRUE

\* None, for an action set and an environment state.
NoActionSet == <<0>>
NoState == <<>>

\* XcsState(): the dataclass with its defaults.
XcsState ==
    [env_state |-> NoState, action_set |-> NoActionSet,
     chosen_action |-> [action |-> NoAction, expected_reward |-> Zero],
     is_explore |-> FALSE, received_reward |-> Zero]

\* What the last call did: its name, the error it raised ("ok" if it
\* returned), the value it returned, the arguments of reward, the set and
\* the value handed to the learning component, whether discovery was invoked
\* and ran, the children it produced, the classifiers covering created, and
\* the arguments of insert_classifier and trim_population, the numerosity
\* the call took away from records the population held before it, the
\* match set generate_match_set returned to run or query, the timestamp
\* discover was called with and the timestamp at which the discover call
\* just before it ran the GA (-1 for none).
NoCall ==
    [op |-> "init", err |-> "ok", ret |-> NoAction, value |-> Zero, eop |-> FALSE,
     learned_set |-> NoActionSet, learned_reward |-> Zero,
     discovery_invoked |-> FALSE, ga_ran |-> FALSE, children |-> <<>>,
     covered |-> <<>>, inserted |-> <<>>, desired_size |-> -1, removed |-> 0,
     match_set |-> <<>>, timestamp |-> -1, ga_at |-> -1, args |-> <<>>,
     result |-> FALSE]

Call(op, err) == [NoCall EXCEPT !.op = op, !.err = err]

\* The engine state as one record.
Engine ==
    [heap |-> heap, pop |-> pop, max_size |-> max_size,
     expects_reward |-> expects_reward, current_state |-> current_state,
     prev_state |-> prev_state, iteration |-> iteration, last |-> last]

PS(es) == [heap |-> es.heap, pop |-> es.pop, max_size |-> es.max_size]

WithPS(es, ps) == [es EXCEPT !.heap = ps.heap, !.pop = ps.pop, !.max_size = ps.max_size]

\* The objects still referenced: the population's records, the members of
\* the pending action sets and of the match set the last call obtained.
\* Everything else is garbage.
Referenced(es) ==
    Range(es.pop)
    \cup Range(es.last.match_set)
    \cup (IF es.current_state.action_set = NoActionSet THEN {}
          ELSE Range(es.current_state.action_set))
    \cup (IF es.prev_state.action_set = NoActionSet THEN {}
          ELSE Range(es.prev_state.action_set))

\* The numerosity a call that ended in es took away from the records the
\* population held before it.
Removed(es) ==
    SumSeq([i \in 1..Len(pop) |->
              IF pop[i] \notin Range(es.pop) THEN heap[pop[i]].numerosity
              ELSE IF es.heap[pop[i]].numerosity < heap[pop[i]].numerosity
              THEN heap[pop[i]].numerosity - es.heap[pop[i]].numerosity
              ELSE 0])

\* The next state of the variables after a call that ended in es.
Becomes(es) ==
    /\ heap' = [id \in Referenced(es) |-> es.heap[id]]
    /\ pop' = es.pop
    /\ max_size' = es.max_size
    /\ expects_reward' = es.expects_reward
    /\ current_state' = es.current_state
    /\ prev_state' = es.prev_state
    /\ iteration' = es.iteration
    /\ last' = [es.last EXCEPT !.removed = Removed(es)]
    /\ UNCHANGED conditions

\* run without its assertion.
RunWithoutAssertion(es) == TRUE

\* The next state after a call made on a Population nothing else refers to:
\* its records are named by their place in the list.
BecomesPopulation(es) ==
    /\ heap' = [i \in 1..Len(es.pop) |-> es.heap[es.pop[i]]]
    /\ pop' = [i \in 1..Len(es.pop) |-> i]
    /\ max_size' = es.max_size
    /\ last' = [es.last EXCEPT !.removed = Removed(es)]
    /\ UNCHANGED <<expects_reward, current_state, prev_state, iteration, conditions>>

\* `assert (not self._expects_reward)` of run.
RunPrecondition(es) == ~es.expects_reward

\* `assert self._expects_reward` of reward.
RewardPrecondition(es) == es.expects_reward

\* run without its iteration limit.
NoIterationLimit(es) == FALSE

\* `0 < max_iterations < self._iteration` of run.
IterationLimitReached(es) == 0 < max_iterations /\ max_iterations < es.iteration

\* The action set of a step: the members of the match set with the chosen action.
ActionSetOf(h, match_set, action) ==
    SelectSeq(match_set, LAMBDA id : h[id].action = action)

\* The state run leaves after the match set and the action were determined.
RunCompletes(es, g, c, state, is_explore) ==
    [WithPS(es, g.ps) EXCEPT
        !.expects_reward = TRUE,
        !.iteration = es.iteration + 1,
        !.current_state =
            [env_state |-> state,
             action_set |-> ActionSetOf(g.ps.heap, g.match_set, c.action),
             chosen_action |-> [action |-> c.action, expected_reward |-> c.expected_reward],
             is_explore |-> is_explore,
             received_reward |-> Zero],
        !.last = [Call("run", "ok") EXCEPT !.ret = c.action, !.covered = g.covered,
                                           !.match_set = g.match_set]]

\* XCS.run
RunOutcomes(es, state, is_explore) ==
    IF ~RunPrecondition(es)
    THEN {[es EXCEPT !.last = Call("run", "AssertionError")]}
    ELSE IF IterationLimitReached(es)
    THEN {[es EXCEPT !.last = Call("run", "ok")]}
    ELSE UNION {
           IF g.err # "ok"
           THEN {[WithPS(es, g.ps) EXCEPT
                    !.last = [Call("run", g.err) EXCEPT !.covered = g.covered]]}
           ELSE {IF c.err # "ok"
                 THEN [WithPS(es, g.ps) EXCEPT
                         !.last = [Call("run", c.err) EXCEPT !.covered = g.covered]]
                 ELSE RunCompletes(es, g, c, state, is_explore)
                 : c \in ChooseAction(g.ps.heap, g.match_set, is_explore)}
           : g \in GenerateMatchSet(PS(es), state)}

\* query implemented as an exploit run.
QueryAsRun(es, state) ==
    {[o EXCEPT !.last.op = "query"] : o \in RunOutcomes(es, state, FALSE)}

\* XCS.query
QueryOutcomes(es, state) ==
    UNION {
      IF g.err # "ok"
      THEN {[WithPS(es, g.ps) EXCEPT
               !.last = [Call("query", g.err) EXCEPT !.covered = g.covered]]}
      ELSE {[WithPS(es, g.ps) EXCEPT
               !.last = [Call("query", c.err) EXCEPT !.ret = c.action,
                                                     !.covered = g.covered,
                                                     !.match_set = g.match_set]]
            : c \in ChooseAction(g.ps.heap, g.match_set, FALSE)}
      : g \in GenerateMatchSet(PS(es), state)}

\* The first eligible member of the action set, or most_general if none is.
FirstEligible(h, s, most_general) ==
    IF \E i \in 1..Len(s) : CanSubsume(h[s[i]])
    THEN s[CHOOSE i \in 1..Len(s) :
              /\ CanSubsume(h[s[i]])
              /\ \A k \in 1..(i - 1) : ~CanSubsume(h[s[k]])]
    ELSE most_general

\* The most general eligible classifier of _do_action_set_subsumption, 0 for
\* None: the scan keeps a candidate until a later eligible member subsumes it.
RECURSIVE MostGeneralClassifier(_, _, _)
MostGeneralClassifier(h, s, most_general) ==
    IF s = <<>> THEN most_general
    ELSE MostGeneralClassifier(h, Tail(s),
            IF /\ CanSubsume(h[Head(s)])
               /\ (most_general = 0 \/ Subsumes(h[Head(s)], h[most_general]))
            THEN Head(s) ELSE most_general)

\* The removal loop of _do_action_set_subsumption: list.remove raises
\* ValueError for a classifier the population no longer holds.
RECURSIVE RemoveSubsumed(_, _, _)
RemoveSubsumed(population, action_set, to_remove) ==
    IF to_remove = <<>>
    THEN [pop |-> population, action_set |-> action_set, err |-> "ok"]
    ELSE IF Head(to_remove) \notin Range(population)
    THEN [pop |-> population, action_set |-> action_set, err |-> "ValueError"]
    ELSE RemoveSubsumed(SelectSeq(population, LAMBDA id : id # Head(to_remove)),
                        SelectSeq(action_set, LAMBDA id : id # Head(to_remove)),
                        Tail(to_remove))

\* XCS._do_action_set_subsumption
DoActionSetSubsumption(ps, action_set) ==
    LET most_general == MostGeneralClassifier(ps.heap, action_set, 0)
        to_remove == SelectSeq(action_set,
                        LAMBDA id : Subsumes(ps.heap[most_general], ps.heap[id]))
        folded == [ps.heap EXCEPT ![most_general].numerosity =
                        @ + NumerositySum(ps.heap, to_remove)]
        removed == RemoveSubsumed(ps.pop, action_set, to_remove)
    IN IF Len(action_set) <= 1 \/ most_general = 0
       THEN [ps |-> ps, action_set |-> action_set, err |-> "ok"]
       ELSE [ps |-> [ps EXCEPT !.heap = folded, !.pop = removed.pop],
             action_set |-> removed.action_set, err |-> removed.err]

\* Whether reward credits the carried previous step.
HasPrevious(es) == es.prev_state.action_set # NoActionSet

\* The step reward credits.
CreditedStep(es) == IF HasPrevious(es) THEN es.prev_state ELSE es.current_state

\* reward that learns from the received value alone.
UndiscountedReward(es, value) == value

\* The value reward hands to the learning component.
CreditedReward(es, value) ==
    IF HasPrevious(es)
    THEN RAdd(es.prev_state.received_reward, RMul(gamma, value))
    ELSE value

\* reward that invokes discovery for every step.
AlwaysDiscovers(step) == TRUE

\* Whether reward invokes discovery for the credited step.
InvokesDiscovery(step) == step.is_explore

\* The keyword arguments reward passes to insert_classifier.
DiscoveryInsertKwargs == [do_subsumption |-> do_discovery_subsumption]

\* The population insertions of the discovered children, in order.
RECURSIVE InsertChildren(_, _)
InsertChildren(ps, children) ==
    IF children = <<>> THEN {[ps |-> ps, err |-> "ok"]}
    ELSE LET id == FreshId(ps.heap)
             ps1 == [ps EXCEPT !.heap = Alloc(ps.heap, Head(children))]
         IN UNION {IF r.err = "ok" THEN InsertChildren(r.ps, Tail(children)) ELSE {r}
                   : r \in InsertClassifier(ps1, id, DiscoveryInsertKwargs)}

\* The action set of the credited step is a list object the engine state
\* refers to: put its new contents where the step is kept.
WithCreditedSet(es, action_set) ==
    IF HasPrevious(es)
    THEN [es EXCEPT !.prev_state.action_set = action_set]
    ELSE [es EXCEPT !.current_state.action_set = action_set]

\* Bookkeeping that carries the current step forward whatever the end of the
\* problem, without the reward received.
AlwaysCarries(es, value, is_end_of_problem) ==
    [es EXCEPT !.prev_state = es.current_state]

\* The step bookkeeping at the end of reward.  Without the end of the problem
\* _prev_state becomes the very object _current_state refers to.
Bookkeeping(es, value, is_end_of_problem) ==
    IF is_end_of_problem
    THEN [es EXCEPT !.prev_state = XcsState, !.current_state = XcsState]
    ELSE [es EXCEPT !.prev_state = [es.current_state EXCEPT !.received_reward = value],
                    !.current_state = [es.current_state EXCEPT !.received_reward = value]]

\* XCS.reward
RewardOutcomes(es, value, is_end_of_problem) ==
    IF ~RewardPrecondition(es)
    THEN {[es EXCEPT !.last = Call("reward", "AssertionError")]}
    ELSE
    LET step == CreditedStep(es)
        reward == CreditedReward(es, value)
        set_to_update == step.action_set
        call == [Call("reward", "ok") EXCEPT !.value = value, !.eop = is_end_of_problem,
                    !.learned_set = set_to_update, !.learned_reward = reward]
        es1 == [es EXCEPT !.expects_reward = FALSE,
                          !.heap = UpdateSet(es.heap, set_to_update, reward)]
        sub == IF do_learning_subsumption
               THEN DoActionSetSubsumption(PS(es1), set_to_update)
               ELSE [ps |-> PS(es1), action_set |-> set_to_update, err |-> "ok"]
        es2 == WithCreditedSet(WithPS(es1, sub.ps), sub.action_set)
    IN IF sub.err # "ok"
       THEN {[es2 EXCEPT !.last = [call EXCEPT !.err = sub.err]]}
       ELSE IF ~InvokesDiscovery(step)
       THEN {[Bookkeeping(es2, value, is_end_of_problem) EXCEPT !.last = call]}
       ELSE UNION {
              LET es3 == [es2 EXCEPT !.heap = d.heap]
                  call3 == [call EXCEPT !.discovery_invoked = TRUE, !.ga_ran = d.ran,
                                        !.children = d.children]
              IN IF d.err # "ok"
                 THEN {[es3 EXCEPT !.last = [call3 EXCEPT !.err = d.err]]}
                 ELSE {IF r.err # "ok"
                       THEN [WithPS(es3, r.ps) EXCEPT !.last = [call3 EXCEPT !.err = r.err]]
                       ELSE [Bookkeeping(WithPS(es3, r.ps), value, is_end_of_problem)
                                EXCEPT !.last = call3]
                       : r \in InsertChildren(PS(es3), d.children)}
              : d \in Discover(es2.heap, es2.iteration, step.env_state, sub.action_set)}

\* XCS.reset
ResetOutcomes(es) ==
    {[WithPS(es, t.ps) EXCEPT
        !.prev_state = XcsState, !.current_state = XcsState, !.iteration = 0,
        !.expects_reward = IF t.err = "ok" THEN FALSE ELSE es.expects_reward,
        !.last = Call("reset", t.err)]
     : t \in TrimPopulation(PS(es), 0)}

-----------------------------------------------------------------------------
(* Calls made on the Population directly.                                  *)

\* Largest numerosity of a classifier handed to the Population from outside.
MaxNumerosity == 2

\* Largest capacity a Population is configured with.
MaxMaxSize == 3

\* A classifier built by the caller, with its numerosity set.
CallerClassifier(condition, action, numerosity) ==
    [NewClassifier(condition, action) EXCEPT !.numerosity = numerosity]

\* Population.insert_classifier called with a new object.
InsertCallOutcomes(es, cl) ==
    LET id == FreshId(es.heap)
        ps1 == [PS(es) EXCEPT !.heap = Alloc(es.heap, cl)]
    IN {[WithPS(es, r.ps) EXCEPT
            !.last = [Call("insert_classifier", r.err) EXCEPT !.inserted = <<cl>>]]
        : r \in InsertClassifier(ps1, id, <<>>)}

\* Population.trim_population called from outside.
TrimCallOutcomes(es, desired_size) ==
    {[WithPS(es, r.ps) EXCEPT
         !.last = [Call("trim_population", r.err) EXCEPT !.desired_size = desired_size]]
     : r \in TrimPopulation(PS(es), desired_size)}

\* The max_size setter.
SetMaxSizeOutcomes(es, value) ==
    IF value < 1
    THEN {[es EXCEPT !.last = Call("max_size", "OutOfRangeException")]}
    ELSE {[WithPS(es, r.ps) EXCEPT !.last = Call("max_size", r.err)]
          : r \in TrimPopulation([PS(es) EXCEPT !.max_size = value], value)}

\* Largest timestamp discover is called with directly.
MaxTimestamp == 3

\* GeneticAlgorithm.discover called on the Population as the set; the
\* children are returned to the caller, args records the state.
DiscoverCallOutcomes(es, timestamp, state) ==
    {[es EXCEPT !.heap = d.heap,
                !.last = [Call("discover", d.err) EXCEPT
                             !.ga_ran = d.ran, !.children = d.children,
                             !.timestamp = timestamp, !.args = <<state>>,
                             !.ga_at = IF d.ran /\ d.err = "ok" THEN timestamp
                                       ELSE IF es.last.op = "discover"
                                       THEN es.last.ga_at ELSE -1]]
     : d \in Discover(es.heap, timestamp, state, es.pop)}

-----------------------------------------------------------------------------
(* Specifications.                                                         *)

\* The values reward is called with.
RewardValues == {Zero, One}

\* The classifier lists a Population is constructed with: none, or a general
\* and a specific rule for one action.
InitialClassifiers ==
    {<<>>,
     <<NewClassifier(<<WILDCARD_CHAR>>, 0), NewClassifier(<<"0">>, 0)>>}

\* Population.__init__ asserts len(classifier) <= max_size; XCS.__init__.
Init ==
    \E classifier \in InitialClassifiers, size \in 2..MaxMaxSize :
        /\ Len(classifier) <= size
        /\ heap = classifier
        /\ pop = [i \in 1..Len(classifier) |-> i]
        /\ max_size = size
        /\ expects_reward = FALSE
        /\ current_state = XcsState
        /\ prev_state = XcsState
        /\ iteration = 0
        /\ last = NoCall
        /\ conditions = <<>>

Run == \E state \in States, is_explore \in BOOLEAN :
          \E es \in RunOutcomes(Engine, state, is_explore) : Becomes(es)

Reward == \E value \in RewardValues, is_end_of_problem \in BOOLEAN :
             \E es \in RewardOutcomes(Engine, value, is_end_of_problem) : Becomes(es)

Query == \E state \in States :
            \E es \in QueryOutcomes(Engine, state) : Becomes(es)

Reset == \E es \in ResetOutcomes(Engine) : Becomes(es)

InsertCall == \E c \in Conditions, a \in AvailableActions, n \in 1..MaxNumerosity :
                 \E es \in InsertCallOutcomes(Engine, CallerClassifier(c, a, n)) :
                    BecomesPopulation(es)

TrimCall == \E desired_size \in 0..(MaxMaxSize + 1) :
               \E es \in TrimCallOutcomes(Engine, desired_size) : BecomesPopulation(es)

SetMaxSize == \E value \in 0..MaxMaxSize :
                 \E es \in SetMaxSizeOutcomes(Engine, value) : BecomesPopulation(es)

\* insert_classifier called with a classifier that belongs to the action set
\* the Population stands for: it matches the state and has the members' action.
InsertMemberCall ==
    \E state \in States, n \in 1..MaxNumerosity,
       a \in (IF pop = <<>> THEN AvailableActions
              ELSE {heap[id].action : id \in Range(pop)}) :
        \E c \in {condition \in Conditions : Matches(condition, state)} :
           \E es \in InsertCallOutcomes(Engine, CallerClassifier(c, a, n)) :
              BecomesPopulation(es)

DiscoverCall == \E timestamp \in 0..MaxTimestamp, state \in States :
                   \E es \in DiscoverCallOutcomes(Engine, timestamp, state) :
                      BecomesPopulation(es)

\* The engine driven through its protocol.
Next == Run \/ Reward \/ Query \/ Reset

Spec == Init /\ [][Next]_vars

\* The Population used on its own.
PopNext == InsertCall \/ TrimCall \/ SetMaxSize

PopSpec == Init /\ [][PopNext]_vars

\* The performance component queried on a Population of any content.
PerfNext == InsertCall \/ SetMaxSize \/ Query

PerfSpec == Init /\ [][PerfNext]_vars

\* A Population whose initial classifiers went through one update_set.
GaInit ==
    \E classifier \in InitialClassifiers, size \in 2..MaxMaxSize, reward \in RewardValues :
        /\ Len(classifier) <= size
        /\ heap = UpdateSet(classifier, [i \in 1..Len(classifier) |-> i], reward)
        /\ pop = [i \in 1..Len(classifier) |-> i]
        /\ max_size = size
        /\ expects_reward = FALSE
        /\ current_state = XcsState
        /\ prev_state = XcsState
        /\ iteration = 0
        /\ last = NoCall
        /\ conditions = <<>>

\* The discovery component called on a Population that stands for an action
\* set.
GaNext == InsertMemberCall \/ DiscoverCall

GaSpec == GaInit /\ [][GaNext]_vars

\* Longest Condition a caller holds.
MaxConditionLen == 2

\* The Condition objects a caller can hold; the empty one is a Condition
\* whose _condition list was emptied after construction.
CallerConditions == UNION {[1..n -> Symbols] : n \in 0..MaxConditionLen}

\* The symbols of the conditions _swap_symbols is called with.
SwappedSymbols == {"0", WILDCARD_CHAR}

SwappedConditions == UNION {[1..n -> SwappedSymbols] : n \in 0..MaxConditionLen}

\* A caller holding two Condition objects out of cs.
CallerHolds(cs) ==
    /\ conditions \in cs \X cs
    /\ heap = <<>>
    /\ pop = <<>>
    /\ max_size = MaxMaxSize
    /\ expects_reward = FALSE
    /\ current_state = XcsState
    /\ prev_state = XcsState
    /\ iteration = 0
    /\ last = NoCall

CallerInit == CallerHolds(CallerConditions)

SwapInit == CallerHolds(SwappedConditions)

\* The objects a caller may pass where a Classifier is expected.
CallerObject(kind, condition, action) ==
    CASE kind = "Classifier" -> NewClassifier(condition, action)
      [] kind = "ChosenAction" -> [action |-> action, expected_reward |-> Zero]
      [] kind = "str" -> [value |-> "ASD"]

\* conditions[i].is_more_general(conditions[j])
IsMoreGeneralCall ==
    \E i \in DOMAIN conditions, j \in DOMAIN conditions :
        LET r == IsMoreGeneralOutcome(conditions[i], conditions[j])
        IN /\ last' = [Call("is_more_general", r.err) EXCEPT
                          !.args = <<i, j>>, !.result = r.result]
           /\ UNCHANGED <<heap, pop, max_size, expects_reward, current_state,
                          prev_state, iteration, conditions>>

\* Classifier(conditions[i], action).subsumes(other)
SubsumesCall ==
    \E i \in DOMAIN conditions, j \in DOMAIN conditions,
       action \in AvailableActions, other_action \in AvailableActions,
       kind \in {"Classifier", "ChosenAction", "str"} :
        LET r == SubsumesOutcome(NewClassifier(conditions[i], action),
                                 CallerObject(kind, conditions[j], other_action))
        IN /\ Len(conditions[i]) > 0
           /\ Len(conditions[j]) > 0
           /\ last' = [Call("subsumes", r.err) EXCEPT
                          !.args = <<i, j, action, other_action, kind>>,
                          !.result = r.result]
           /\ UNCHANGED <<heap, pop, max_size, expects_reward, current_state,
                          prev_state, iteration, conditions>>

\* GeneticAlgorithm._swap_symbols(c1, c2, from_index, to_index) where each of
\* c1 and c2 is None (0) or one of the caller's conditions; the indices are
\* passed 1-based, 0 standing for the index -1 of the source.
SwapSymbolsCall ==
    \E i \in {0} \cup DOMAIN conditions, j \in {0} \cup DOMAIN conditions,
       from_index \in 0..(MaxConditionLen + 1), to_index \in 0..(MaxConditionLen + 1) :
        LET c1 == IF i = 0 THEN None ELSE conditions[i]
            c2 == IF j = 0 THEN None ELSE conditions[j]
            r == SwapSymbols(c1, c2, i # 0 /\ i = j, from_index, to_index)
        IN /\ conditions' = [k \in DOMAIN conditions |->
                                IF k = i THEN r.c1
                                ELSE IF k = j THEN r.c2 ELSE conditions[k]]
           /\ last' = [Call("_swap_symbols", r.err) EXCEPT
                          !.args = <<i, j, from_index, to_index>>]
           /\ UNCHANGED <<heap, pop, max_size, expects_reward, current_state,
                          prev_state, iteration>>

\* The records of a Population built from classifiers that have been in use:
\* with no, little or full fitness, new or past the deletion experience
\* threshold.
UsedClassifiers(condition) ==
    {[NewClassifier(condition, 0) EXCEPT
         !.fitness = f, !.experience = e, !.numerosity = n] :
        f \in {Zero, Frac(1, 100), One},
        e \in {0, deletion_exp_threshold + 1},
        n \in 1..MaxNumerosity}

\* A Population constructed with one or two such classifiers.
UsedInit ==
    /\ heap \in {<<cl>> : cl \in UsedClassifiers(<<WILDCARD_CHAR>>)}
               \cup {<<cl, other>> : cl \in UsedClassifiers(<<WILDCARD_CHAR>>),
                                     other \in UsedClassifiers(<<"0">>)}
    /\ pop = [i \in 1..Len(heap) |-> i]
    /\ max_size = MaxMaxSize
    /\ NumerositySum(heap, pop) <= max_size
    /\ expects_reward = FALSE
    /\ current_state = XcsState
    /\ prev_state = XcsState
    /\ iteration = 0
    /\ last = NoCall
    /\ conditions = <<>>

\* trim_population called on a Population of used classifiers.
VoteSpec == UsedInit /\ [][TrimCall]_vars

\* Largest action set handed to _do_action_set_subsumption directly.
MaxSetSize == 3

\* The members of such an action set: classifiers of one action whose
\* conditions match the state of all "0", with and without the experience of
\* a subsumer.
SetMembers ==
    {[NewClassifier(c, 0) EXCEPT !.experience = e] :
        c \in [1..MaxConditionLen -> SwappedSymbols], e \in {0, min_exp}}

\* A Population that holds the members of one action set, in any order.
SetInit ==
    /\ heap \in UNION {[1..n -> SetMembers] : n \in 1..MaxSetSize}
    /\ pop = [i \in 1..Len(heap) |-> i]
    /\ max_size = MaxSetSize
    /\ expects_reward = FALSE
    /\ current_state = XcsState
    /\ prev_state = XcsState
    /\ iteration = 0
    /\ last = NoCall
    /\ conditions = <<>>

\* XCS._do_action_set_subsumption called on the whole Population as the
\* action set; args records the subsumer it selected and the first eligible
\* member (0 for none).
SubsumptionCallOutcomes(es) ==
    LET sub == DoActionSetSubsumption(PS(es), es.pop)
        first == IF \E i \in 1..Len(es.pop) : CanSubsume(es.heap[es.pop[i]])
                 THEN CHOOSE i \in 1..Len(es.pop) :
                         /\ CanSubsume(es.heap[es.pop[i]])
                         /\ \A k \in 1..(i - 1) : ~CanSubsume(es.heap[es.pop[k]])
                 ELSE 0
    IN {[WithPS(es, sub.ps) EXCEPT
           !.last = [Call("_do_action_set_subsumption", sub.err) EXCEPT
                        !.args = <<IF Len(es.pop) <= 1 THEN 0
                                   ELSE MostGeneralClassifier(es.heap, es.pop, 0),
                                   first>>]]}

SubsumptionCall ==
    \E es \in SubsumptionCallOutcomes(Engine) : BecomesPopulation(es)

\* Action-set subsumption applied to action sets of any order.
SubsumptionSpec == SetInit /\ [][SubsumptionCall]_vars

\* GeneticAlgorithm._one_point_crossover(cl1, cl2) on two classifiers that
\* hold the caller's conditions i and j, non-empty and of one length.
OnePointCrossoverCall ==
    \E i \in DOMAIN conditions, j \in DOMAIN conditions :
        /\ i # j
        /\ Len(conditions[i]) > 0
        /\ Len(conditions[i]) = Len(conditions[j])
        /\ \E range \in OnePointRanges(Len(conditions[i])) :
              LET r == SwapSymbols(conditions[i], conditions[j], FALSE,
                                   range[1], range[2])
              IN /\ conditions' = [k \in DOMAIN conditions |->
                                      IF k = i THEN r.c1 ELSE r.c2]
                 /\ last' = [Call("_one_point_crossover", r.err) EXCEPT
                                !.args = <<i, j, range[1]>>]
                 /\ UNCHANGED <<heap, pop, max_size, expects_reward, current_state,
                                prev_state, iteration>>

\* The one-point operator applied to the caller's conditions.
OnePointSpec == CallerInit /\ [][OnePointCrossoverCall]_vars

\* Largest experience a classifier reaches through direct update_set calls.
MaxExperience == 3

\* The action sets a caller can form from the Population: its records in
\* list order, at least one.
ActionSets(s) ==
    {a \in UNION {[1..n -> Range(s)] : n \in 1..Len(s)} :
        \A i \in DOMAIN a, j \in DOMAIN a : i < j => a[i] < a[j]}

\* A Population of a general and a specific rule of any numerosity.
LearnInit ==
    \E n1 \in 1..MaxNumerosity, n2 \in 1..MaxNumerosity :
        /\ heap = <<[NewClassifier(<<WILDCARD_CHAR>>, 0) EXCEPT !.numerosity = n1],
                    [NewClassifier(<<"0">>, 0) EXCEPT !.numerosity = n2]>>
        /\ pop = <<1, 2>>
        /\ max_size = n1 + n2
        /\ expects_reward = FALSE
        /\ current_state = XcsState
        /\ prev_state = XcsState
        /\ iteration = 0
        /\ last = NoCall
        /\ conditions = <<>>

\* QLearningBasedComponent.update_set called with an action set of the
\* Population's records and a reward.
UpdateSetCall ==
    \E reward \in RewardValues, s \in ActionSets(pop) :
        /\ \A id \in Range(s) : heap[id].experience < MaxExperience
        /\ heap' = UpdateSet(heap, s, reward)
        /\ last' = [Call("update_set", "ok") EXCEPT
                       !.learned_set = s, !.learned_reward = reward]
        /\ UNCHANGED <<pop, max_size, expects_reward, current_state, prev_state,
                       iteration, conditions>>

\* The learning component called on its own.
LearnSpec == LearnInit /\ [][UpdateSetCall]_vars

\* Condition.is_more_general called on the caller's conditions.
ConditionNext == IsMoreGeneralCall

ConditionSpec == CallerInit /\ [][ConditionNext]_vars

\* Classifier.subsumes called with the caller's objects.
SubsumesNext == SubsumesCall

SubsumesSpec == CallerInit /\ [][SubsumesNext]_vars

\* _swap_symbols called on the caller's conditions.
SwapNext == SwapSymbolsCall

SwapSpec == SwapInit /\ [][SwapNext]_vars


-----------------------------------------------------------------------------
(* The engine's protocol and frame (Spec).                                 *)

\* C1: after any sequence of Population-mutating operations the sum of
\* numerosity over all Population records is at most max_size.
PopulationWithinCapacity == NumerositySum(heap, pop) <= max_size

\* C2: run called while a reward is awaited raises the assertion error, and
\* reward called while none is awaited raises the assertion error.
ProtocolViolationRaises ==
    [][/\ (last'.op = "run" /\ expects_reward) => last'.err = "AssertionError"
       /\ (last'.op = "reward" /\ ~expects_reward) => last'.err = "AssertionError"]_vars

\* A second run without an intervening reward was refused.
SecondRunRefused ==
    /\ last.op = "run"
    /\ last.err = "AssertionError"
    /\ expects_reward
    /\ current_state.action_set # NoActionSet

RewardCreditsCarriedStep ==
    [][(last'.op = "reward" /\ expects_reward) =>
         LET carried == prev_state.action_set # NoActionSet
             set == IF carried THEN prev_state.action_set
                    ELSE current_state.action_set
             reward == IF carried
                       THEN RAdd(prev_state.received_reward, RMul(gamma, last'.value))
                       ELSE last'.value
             updated == UpdateSet(heap, set, reward)
         IN /\ last'.learned_set = set
            /\ last'.learned_reward = reward
            /\ \A id \in DOMAIN heap \cap DOMAIN heap' :
                  IF id \in Range(set)
                  THEN /\ heap'[id].experience = heap[id].experience + 1
                       /\ heap'[id].prediction = updated[id].prediction
                       /\ heap'[id].epsilon = updated[id].epsilon
                  ELSE /\ heap'[id].experience = heap[id].experience
                       /\ heap'[id].prediction = heap[id].prediction]_vars

\* A reward of 1 credited a carried step that had received 1: the learning
\* component was handed 1 + gamma.
CarriedStepCredited ==
    /\ last.op = "reward"
    /\ last.err = "ok"
    /\ last.value = One
    /\ last.learned_reward = RAdd(One, gamma)
    /\ last.learned_set # NoActionSet

\* C5: a reward that returns with is_end_of_problem clears the current and
\* the previous step; one that returns without it makes the step that was
\* current the previous step, with received_reward equal to the value.
RewardBookkeeping ==
    [][(last'.op = "reward" /\ last'.err = "ok") =>
         IF last'.eop
         THEN current_state' = XcsState /\ prev_state' = XcsState
         ELSE /\ prev_state'.env_state = current_state.env_state
              /\ prev_state'.chosen_action = current_state.chosen_action
              /\ prev_state'.is_explore = current_state.is_explore
              /\ prev_state'.received_reward = last'.value
              /\ Range(prev_state'.action_set) \subseteq Range(current_state.action_set)
              /\ (prev_state.action_set # NoActionSet =>
                     prev_state'.action_set = current_state.action_set)]_vars

\* A reward of 1 that did not end the problem carried the step forward.
StepCarriedForward ==
    /\ last.op = "reward"
    /\ last.err = "ok"
    /\ ~last.eop
    /\ last.value = One
    /\ prev_state.action_set # NoActionSet
    /\ prev_state.received_reward = One
    /\ prev_state.env_state \in States

\* C6, as stated: query leaves the flag, the step bookkeeping and the
\* iteration counter unchanged and changes the Population only by the
\* classifiers covering inserted: every record stays as it was.
QueryOnlyAddsCovered ==
    [][last'.op = "query" =>
         /\ UNCHANGED <<expects_reward, current_state, prev_state, iteration, max_size>>
         /\ \A id \in Range(pop) : id \in Range(pop') /\ heap'[id] = heap[id]
         /\ Range(pop') \ Range(pop) \subseteq Range(last'.covered)]_vars

\* C6, amended: query leaves the flag, the step bookkeeping and the iteration
\* counter unchanged; the records it adds were created by covering for the
\* state, and the records the Population held change only by the numerosity
\* the capacity trim of those insertions takes from them, down to deletion.
QueryAddsCoveredAndTrims ==
    [][last'.op = "query" =>
         /\ UNCHANGED <<expects_reward, current_state, prev_state, iteration, max_size>>
         /\ \A id \in Range(pop) \cap Range(pop') :
               /\ heap'[id].numerosity <= heap[id].numerosity
               /\ heap'[id] = [heap[id] EXCEPT !.numerosity = heap'[id].numerosity]
         /\ Range(pop') \ Range(pop) \subseteq Range(last'.covered)
         /\ \A id \in Range(pop') \ Range(pop) :
               /\ \E state \in States : Matches(heap'[id].condition, state)
               /\ heap'[id].experience = 0
         /\ (last'.covered = <<>> => pop' = pop /\ last'.removed = 0)]_vars

\* A query covered a missing action and the insertion's trim took numerosity
\* from the records held before.
QueryTrimmed ==
    /\ last.op = "query"
    /\ last.err = "ok"
    /\ last.covered # <<>>
    /\ last.removed > 0
    /\ last.ret \in AvailableActions

\* C7: reward invokes discovery only for an explore credited step, a reward
\* that returns invokes it for every explore credited step, and a reward
\* crediting an exploit step adds no record to the Population.
DiscoveryOnlyOnExplore ==
    [][(last'.op = "reward" /\ expects_reward) =>
         LET credited == IF prev_state.action_set # NoActionSet
                         THEN prev_state ELSE current_state
         IN /\ last'.discovery_invoked => credited.is_explore
            /\ (last'.err = "ok" /\ credited.is_explore) => last'.discovery_invoked
            /\ ~credited.is_explore =>
                  /\ Range(pop') \subseteq Range(pop)
                  /\ last'.children = <<>>
                  /\ \A id \in DOMAIN heap \cap DOMAIN heap' :
                        heap'[id].timestamp_since_ga = heap[id].timestamp_since_ga]_vars

\* A reward crediting an explore step invoked discovery, which ran and
\* produced children.
DiscoveryProducedChildren ==
    /\ last.op = "reward"
    /\ last.err = "ok"
    /\ last.discovery_invoked
    /\ last.ga_ran
    /\ last.children # <<>>

\* C8: with discovery-time subsumption configured, a child that reward
\* inserts while an eligible record subsumes it is merged into such a record:
\* no reward leaves a new record next to a record it kept that subsumes the
\* new one and may subsume.
ChildMergedIntoSubsumer ==
    [][(last'.op = "reward" /\ do_discovery_subsumption) =>
         \A new \in Range(pop') \ Range(pop), r \in Range(pop') \cap Range(pop) :
            ~(Subsumes(heap'[r], heap'[new]) /\ CanSubsume(heap'[r]))]_vars

-----------------------------------------------------------------------------
(* The Population's own operations (PopSpec).                              *)

\* C9, as stated: inserting a classifier whose condition and action equal
\* those of an existing record raises the total numerosity by exactly the
\* inserted numerosity and does not raise the number of records.
EqualInsertAddsNumerosity ==
    [][(/\ last'.op = "insert_classifier"
        /\ last'.err = "ok"
        /\ \E id \in Range(pop) :
              /\ heap[id].condition = last'.inserted[1].condition
              /\ heap[id].action = last'.inserted[1].action) =>
         /\ NumerositySum(heap', pop') =
               NumerositySum(heap, pop) + last'.inserted[1].numerosity
         /\ Len(pop') <= Len(pop)]_vars

\* C9, amended: such an insertion does not raise the number of records; it
\* raises the total numerosity by exactly the inserted numerosity when the
\* total stays within max_size, and otherwise leaves it at max_size.
EqualInsertWithinCapacity ==
    [][(/\ last'.op = "insert_classifier"
        /\ last'.err = "ok"
        /\ \E id \in Range(pop) :
              /\ heap[id].condition = last'.inserted[1].condition
              /\ heap[id].action = last'.inserted[1].action) =>
         LET total == NumerositySum(heap, pop) + last'.inserted[1].numerosity
         IN /\ NumerositySum(heap', pop') =
                  (IF total <= max_size THEN total ELSE max_size)
            /\ Len(pop') <= Len(pop)]_vars

\* A classifier of numerosity 1 was merged into a record equal to it: the
\* record holds more than the inserted numerosity.
EqualInsertMerged ==
    /\ last.op = "insert_classifier"
    /\ last.err = "ok"
    /\ last.removed = 0
    /\ last.inserted[1].numerosity = 1
    /\ \E id \in Range(pop) :
          /\ heap[id].condition = last.inserted[1].condition
          /\ heap[id].action = last.inserted[1].action
          /\ heap[id].numerosity > 1

\* C10: trim_population with desired_size above max_size raises the
\* assertion error and leaves the Population unchanged.
TrimAboveCapacityRaises ==
    [][(last'.op = "trim_population" /\ last'.desired_size > max_size) =>
         /\ last'.err = "AssertionError"
         /\ UNCHANGED <<heap, pop, max_size>>]_vars

\* C11: trim_population(desired_size) with 0 <= desired_size <= max_size
\* returns with the numerosity sum at the minimum of its old value and
\* desired_size, having taken exactly the difference from the records one
\* unit at a time (no record is left with numerosity 0, none is added); with
\* desired_size = 0 no record is left.
TrimReachesDesiredSize ==
    [][(/\ last'.op = "trim_population"
        /\ 0 <= last'.desired_size
        /\ last'.desired_size <= max_size) =>
         LET before == NumerositySum(heap, pop)
             after == NumerositySum(heap', pop')
         IN /\ last'.err = "ok"
            /\ after = (IF before < last'.desired_size THEN before
                        ELSE last'.desired_size)
            /\ last'.removed = before - after
            /\ Len(pop') <= Len(pop)
            /\ \A id \in Range(pop') : heap'[id].numerosity >= 1
            /\ (last'.desired_size = 0 => pop' = <<>>)
            /\ max_size' = max_size]_vars

\* A trim took two units of numerosity and left records behind.
TrimTookTwoUnits ==
    /\ last.op = "trim_population"
    /\ last.err = "ok"
    /\ last.removed = 2
    /\ last.desired_size > 0
    /\ NumerositySum(heap, pop) = last.desired_size
    /\ pop # <<>>

-----------------------------------------------------------------------------
(* The performance component (PerfSpec).                                   *)

\* C12: when fewer than min_diff_actions (> 0) distinct actions are present
\* among the matching classifiers, generate_match_set covers the missing
\* actions one at a time until the match set holds min(min_diff_actions,
\* number of available actions) distinct actions, and every covered
\* classifier matches the state and is, on return, in the match set and in
\* the Population.
CoveredInMatchSetAndPopulation ==
    [][(last'.op = "query" /\ last'.err = "ok") =>
         \A state \in States :
            LET present == GetAvailableActions(heap, MatchingClassifiers(heap, pop, state))
                target == IF min_diff_actions < Cardinality(AvailableActions)
                          THEN min_diff_actions ELSE Cardinality(AvailableActions)
            IN (Cardinality(present) < min_diff_actions /\ min_diff_actions > 0) =>
                  /\ Cardinality(GetAvailableActions(heap', last'.match_set)) = target
                  /\ Len(last'.covered) = target - Cardinality(present)
                  /\ \A id \in Range(last'.covered) :
                        /\ Matches(heap'[id].condition, state)
                        /\ id \in Range(last'.match_set)
                        /\ id \in Range(pop')]_vars

\* C13: choose_action on a non-empty match set returns an action present in
\* the match set with its prediction-array value, the fitness-weighted mean
\* prediction of the action's classifiers, whose divisor is float epsilon
\* when all their fitness is 0; without is_explore no action present has a
\* larger value.
ChosenActionIsPresentAndBest ==
    [][(last'.op = "run" /\ last'.err = "ok" /\ last'.match_set # <<>>) =>
         LET members(a) == SelectSeq(last'.match_set, LAMBDA id : heap'[id].action = a)
             weighted(a) == RSumSeq([i \in 1..Len(members(a)) |->
                               RMul(heap'[members(a)[i]].prediction,
                                    heap'[members(a)[i]].fitness)])
             fitness_sum(a) == RSumSeq([i \in 1..Len(members(a)) |->
                                  heap'[members(a)[i]].fitness])
             value(a) == RDiv(weighted(a),
                              IF fitness_sum(a) = Zero THEN float_info_epsilon
                              ELSE fitness_sum(a))
             present == {heap'[id].action : id \in Range(last'.match_set)}
             chosen == current_state'.chosen_action
         IN /\ chosen.action \in present
            /\ last'.ret = chosen.action
            /\ chosen.expected_reward = value(chosen.action)
            /\ ~current_state'.is_explore =>
                  \A a \in present : RLe(value(a), chosen.expected_reward)]_vars

\* An exploit run chose the action valued 1 over an action whose classifiers
\* all have fitness 0.
BestActionChosenOverZeroFitness ==
    /\ last.op = "run"
    /\ last.err = "ok"
    /\ ~current_state.is_explore
    /\ current_state.chosen_action.expected_reward = One
    /\ \E id \in Range(last.match_set) :
          /\ heap[id].action # current_state.chosen_action.action
          /\ \A other \in Range(last.match_set) :
                heap[other].action = heap[id].action => heap[other].fitness = Zero

\* C14: discover on a non-empty set runs the GA if and only if timestamp
\* minus the numerosity-weighted average of the members' last-GA tags is at
\* least ga_threshold, a member without a tag counting with the current
\* timestamp; when gated off it returns an empty set and leaves every
\* member's condition, action, statistics and numerosity as they were.
GaRunsIffAverageTagDue ==
    [][(last'.op = "discover" /\ pop # <<>>) =>
         LET t == last'.timestamp
             tag(id) == IF heap[id].timestamp_since_ga = Untagged THEN t
                        ELSE heap[id].timestamp_since_ga
             total == NumerositySum(heap, pop)
             tagged == SumSeq([i \in 1..Len(pop) |->
                                  tag(pop[i]) * heap[pop[i]].numerosity])
             due == t * total - tagged >= ga_threshold * total
         IN /\ last'.ga_ran <=> due
            /\ ~last'.ga_ran =>
                  /\ last'.err = "ok"
                  /\ last'.children = <<>>
                  /\ Len(pop') = Len(pop)
                  /\ \A i \in 1..Len(pop) :
                        [heap'[pop'[i]] EXCEPT !.timestamp_since_ga = Untagged]
                        = [heap[pop[i]] EXCEPT !.timestamp_since_ga = Untagged]]_vars

\* C15: when discover has run the GA at timestamp t, every member of the set
\* carries the tag t; a discover that follows on the same members at a
\* timestamp t' with t' - t < ga_threshold is gated off and returns an empty
\* set, the members keeping the tag t.
GaRunTagsMembersAndGatesNextCall ==
    [][/\ (last'.op = "discover" /\ last'.ga_ran /\ last'.err = "ok") =>
            /\ Len(last'.children) = 2
            /\ \A id \in Range(pop') : heap'[id].timestamp_since_ga = last'.timestamp
       /\ (/\ last.op = "discover" /\ last.ga_at # -1
           /\ last'.op = "discover"
           /\ last'.timestamp - last.ga_at < ga_threshold) =>
            /\ ~last'.ga_ran
            /\ last'.err = "ok"
            /\ last'.children = <<>>
            /\ \A id \in Range(pop') : heap'[id].timestamp_since_ga = last.ga_at]_vars

\* A discover called at the timestamp of the GA run before it was gated off.
DiscoverGatedAfterGaRun ==
    /\ last.op = "discover"
    /\ last.err = "ok"
    /\ ~last.ga_ran
    /\ last.ga_at > 0
    /\ last.timestamp - last.ga_at < ga_threshold
    /\ pop # <<>>
    /\ \A id \in Range(pop) : heap[id].timestamp_since_ga = last.ga_at

\* C16: for same-length conditions a and b, a.is_more_general(b) is false
\* when a equals b, and a.is_more_general(b) and b.is_more_general(a) are
\* never both true.
IsMoreGeneralIrreflexiveAntisymmetric ==
    [][(last'.op = "is_more_general" /\ last'.err = "ok") =>
         LET a == conditions[last'.args[1]]
             b == conditions[last'.args[2]]
         IN /\ a = b => ~last'.result
            /\ (/\ last.op = "is_more_general" /\ last.err = "ok"
                /\ last.args = <<last'.args[2], last'.args[1]>>) =>
                  ~(last.result /\ last'.result)]_vars

\* b.is_more_general(a) returned True and a.is_more_general(b), called next
\* on two conditions of length 2, returned False.
MoreGeneralOneWayOnly ==
    /\ last.op = "is_more_general"
    /\ last.err = "ok"
    /\ ~last.result
    /\ Len(conditions[1]) = 2
    /\ conditions[1] # conditions[2]
    /\ IsMoreGeneral(conditions[last.args[2]], conditions[last.args[1]])

\* C17: cl1.subsumes(cl2) returns True if and only if cl1 and cl2 have the
\* same action and cl1's condition is strictly more general than cl2's (of
\* the same length); it returns False for an argument that is not a
\* classifier.
SubsumesIffSameActionAndMoreGeneral ==
    [][last'.op = "subsumes" =>
         LET c == conditions[last'.args[1]]
             o == conditions[last'.args[2]]
             same_action == last'.args[3] = last'.args[4]
             strictly_more_general ==
                 /\ c # o
                 /\ \A k \in 1..Len(c) : c[k] = o[k] \/ c[k] = WILDCARD_CHAR
         IN IF last'.args[5] = "Classifier"
            THEN Len(c) = Len(o) =>
                    /\ last'.err = "ok"
                    /\ last'.result <=> (same_action /\ strictly_more_general)
            ELSE last'.err = "ok" /\ ~last'.result]_vars

\* C18 as stated: every violated precondition of _swap_symbols (a null
\* condition, an empty condition, unequal lengths, the same object passed
\* twice, an index outside the condition, from_index > to_index) raises an
\* error and leaves both conditions unchanged, and two calls that violate
\* different preconditions (one each) raise errors of different kinds.
SwapViolationsRaiseDistinctErrors ==
    [][last'.op = "_swap_symbols" =>
         LET Violations(args) ==
             LET i == args[1]
                 j == args[2]
                 c1 == conditions[i]
                 c2 == conditions[j]
             IN IF i = 0 \/ j = 0 THEN {"null"} ELSE
                (IF Len(c1) = 0 \/ Len(c2) = 0 THEN {"empty"} ELSE {}) \cup
                (IF Len(c1) # Len(c2) THEN {"unequal"} ELSE {}) \cup
                (IF i = j THEN {"same"} ELSE {}) \cup
                (IF Len(c1) > 0 /\ (\/ args[3] < 1 \/ args[3] > Len(c1)
                                    \/ args[4] < 1 \/ args[4] > Len(c1))
                 THEN {"index"} ELSE {}) \cup
                (IF args[3] > args[4] THEN {"order"} ELSE {})
             V == Violations(last'.args)
         IN /\ V # {} => (last'.err # "ok" /\ conditions' = conditions)
            /\ (/\ last.op = "_swap_symbols"
                /\ Cardinality(V) = 1
                /\ Cardinality(Violations(last.args)) = 1
                /\ V # Violations(last.args)) => last'.err # last.err]_vars

\* C18: every violated precondition of _swap_symbols raises an error and
\* leaves both conditions unchanged: NoneValueException for a null
\* condition, EmptyCollectionException for an empty one, OutOfRangeException
\* for an index outside the condition, and ValueError alike for unequal
\* lengths, for the same object passed twice and for from_index > to_index;
\* a call that violates nothing raises nothing.
SwapViolationsRaiseTheirError ==
    [][last'.op = "_swap_symbols" =>
         LET Violations(args) ==
             LET i == args[1]
                 j == args[2]
                 c1 == conditions[i]
                 c2 == conditions[j]
             IN IF i = 0 \/ j = 0 THEN {"null"} ELSE
                (IF Len(c1) = 0 \/ Len(c2) = 0 THEN {"empty"} ELSE {}) \cup
                (IF Len(c1) # Len(c2) THEN {"unequal"} ELSE {}) \cup
                (IF i = j THEN {"same"} ELSE {}) \cup
                (IF Len(c1) > 0 /\ (\/ args[3] < 1 \/ args[3] > Len(c1)
                                    \/ args[4] < 1 \/ args[4] > Len(c1))
                 THEN {"index"} ELSE {}) \cup
                (IF args[3] > args[4] THEN {"order"} ELSE {})
             V == Violations(last'.args)
             value_errors == {"unequal", "same", "order"}
         IN /\ V # {} => (last'.err # "ok" /\ conditions' = conditions)
            /\ V = {} => last'.err = "ok"
            /\ "null" \in V => last'.err = "NoneValueException"
            /\ V = {"empty"} => last'.err = "EmptyCollectionException"
            /\ V = {"index"} => last'.err = "OutOfRangeException"
            /\ (Cardinality(V) = 1 /\ V \subseteq value_errors) =>
                  last'.err = "ValueError"
            /\ last'.err = "NoneValueException" => "null" \in V
            /\ last'.err = "EmptyCollectionException" => "empty" \in V
            /\ last'.err = "OutOfRangeException" => "index" \in V
            /\ last'.err = "ValueError" => V \cap value_errors # {}]_vars

\* A condition was passed twice with valid, ordered indices and the call
\* raised ValueError, the condition being as it was.
SwapWithItselfRaisedValueError ==
    /\ last.op = "_swap_symbols"
    /\ last.err = "ValueError"
    /\ last.args[1] # 0
    /\ last.args[1] = last.args[2]
    /\ 1 <= last.args[3]
    /\ last.args[3] < last.args[4]
    /\ last.args[4] <= Len(conditions[last.args[1]])

\* C19: when run or reward (and the insert_classifier and trim_population
\* calls they make) raises an error, the Population's records with their
\* numerosities and statistics, the engine's expects_reward flag and its
\* step bookkeeping are as they were before the call.
FailedCallLeavesNoMutation ==
    [][(last'.op \in {"run", "reward"} /\ last'.err # "ok") =>
         /\ Len(pop') = Len(pop)
         /\ \A i \in 1..Len(pop) : heap'[pop'[i]] = heap[pop[i]]
         /\ expects_reward' = expects_reward
         /\ current_state' = current_state
         /\ prev_state' = prev_state
         /\ iteration' = iteration]_vars

\* C20: action-set subsumption (a reward that invokes no discovery) leaves
\* the Population's total numerosity unchanged: a classifier of the
\* credited action set whose numerosity grew has grown by the summed
\* numerosity of the members it subsumes, and none of these is in the
\* Population afterwards.
SubsumptionKeepsTotalNumerosity ==
    [][(/\ last'.op = "reward"
        /\ ~last'.discovery_invoked
        /\ last'.learned_set # NoActionSet) =>
         LET members == Range(last'.learned_set)
             subsumed(g) == {id \in members :
                               /\ heap[id].action = heap[g].action
                               /\ IsMoreGeneral(heap[g].condition, heap[id].condition)}
             sum(g) == SumSeq([i \in 1..Len(last'.learned_set) |->
                                 IF last'.learned_set[i] \in subsumed(g)
                                 THEN heap[last'.learned_set[i]].numerosity ELSE 0])
         IN /\ NumerositySum(heap', pop') = NumerositySum(heap, pop)
            /\ \A g \in members :
                  (g \in DOMAIN heap' /\ heap'[g].numerosity # heap[g].numerosity) =>
                     /\ heap'[g].numerosity = heap[g].numerosity + sum(g)
                     /\ subsumed(g) \cap Range(pop') = {}]_vars

\* C21: the classifier action-set subsumption selects as the subsumer is
\* eligible per the subsumption criteria and no other eligible member of the
\* action set subsumes it, whatever the order of the action set; it selects
\* none only if no member is eligible.
SubsumerIsEligibleAndMostGeneral ==
    [][(last'.op = "_do_action_set_subsumption" /\ Len(pop) > 1) =>
         LET g == last'.args[1]
             eligible(id) == /\ heap[id].experience >= min_exp
                             /\ RLe(heap[id].epsilon, max_epsilon)
             subsumes(a, b) ==
                 /\ heap[a].action = heap[b].action
                 /\ heap[a].condition # heap[b].condition
                 /\ \A k \in 1..Len(heap[a].condition) :
                       \/ heap[a].condition[k] = heap[b].condition[k]
                       \/ heap[a].condition[k] = WILDCARD_CHAR
         IN IF g = 0
            THEN \A id \in Range(pop) : ~eligible(id)
            ELSE /\ g \in Range(pop)
                 /\ eligible(g)
                 /\ \A id \in Range(pop) : eligible(id) => ~subsumes(id, g)]_vars

\* The subsumer selected was not the first eligible member of the action
\* set, and a member was folded into it.
LaterMemberSelectedAsSubsumer ==
    /\ last.op = "_do_action_set_subsumption"
    /\ last.err = "ok"
    /\ last.args[2] # 0
    /\ last.args[1] # last.args[2]
    /\ last.removed > 0

\* C22: in a deletion step of trim_population the vote of a record cl is
\* cl.action_set_size * cl.numerosity, multiplied by
\* average_fitness / (cl.fitness / cl.numerosity) exactly when
\* cl.experience > theta_del, cl.fitness > 0 and
\* cl.fitness / cl.numerosity < delta * average_fitness, average_fitness
\* being the sum of all records' fitness divided by the numerosity sum.
DeletionVoteUsesAverageFitness ==
    [][(/\ last'.op = "trim_population"
        /\ NumerositySum(heap, pop) > last'.desired_size) =>
         LET average_fitness ==
                 RDiv(RSumSeq([i \in 1..Len(pop) |-> heap[pop[i]].fitness]),
                      Q(NumerositySum(heap, pop)))
             own(cl) == RDiv(cl.fitness, Q(cl.numerosity))
             vote(cl) ==
                 IF /\ cl.experience > deletion_exp_threshold
                    /\ RLt(Zero, cl.fitness)
                    /\ RLt(own(cl), RMul(deletion_fitness_fraction, average_fitness))
                 THEN RMul(RMul(cl.action_set_size, Q(cl.numerosity)),
                           RDiv(average_fitness, own(cl)))
                 ELSE RMul(cl.action_set_size, Q(cl.numerosity))
         IN \A i \in 1..Len(pop) :
               DeletionVote(heap[pop[i]],
                            AverageFitness(heap, pop, last'.desired_size))
               = vote(heap[pop[i]])]_vars

\* C23: the one-point operator exchanges between the two children exactly
\* the symbols at the positions from from_index to the last one, for a
\* from_index within the condition, and leaves the positions before
\* from_index as they were.
OnePointSwapsTail ==
    [][last'.op = "_one_point_crossover" =>
         LET i == last'.args[1]
             j == last'.args[2]
             from_index == last'.args[3]
         IN /\ last'.err = "ok"
            /\ from_index \in 1..Len(conditions[i])
            /\ \A k \in 1..Len(conditions[i]) :
                  IF k >= from_index
                  THEN /\ conditions'[i][k] = conditions[j][k]
                       /\ conditions'[j][k] = conditions[i][k]
                  ELSE /\ conditions'[i][k] = conditions[i][k]
                       /\ conditions'[j][k] = conditions[j][k]]_vars

-----------------------------------------------------------------------------
(* The learning update (LearnSpec).                                        *)

\* C24: update_set increments the experience of every classifier of the set
\* by one and then moves its epsilon toward |reward - prediction| (with the
\* prediction before the update), its prediction toward reward and its
\* action_set_size toward the numerosity sum of the set, by the step
\* 1/experience while experience < 1/beta and beta from then on; the
\* classifiers outside the set are unchanged.
UpdateSetIsWidrowHoff ==
    [][last'.op = "update_set" =>
         LET s == last'.learned_set
             reward == last'.learned_reward
             sum == Q(NumerositySum(heap, s))
         IN \A id \in DOMAIN heap :
               IF id \in Range(s)
               THEN LET old == heap[id]
                        new == heap'[id]
                        step == IF RLt(Q(new.experience), RDiv(One, beta))
                                THEN Frac(1, new.experience) ELSE beta
                    IN /\ new.experience = old.experience + 1
                       /\ new.epsilon =
                             RAdd(old.epsilon,
                                  RMul(step, RSub(RAbs(RSub(reward, old.prediction)),
                                                  old.epsilon)))
                       /\ new.prediction =
                             RAdd(old.prediction, RMul(step, RSub(reward, old.prediction)))
                       /\ new.action_set_size =
                             RAdd(old.action_set_size,
                                  RMul(step, RSub(sum, old.action_set_size)))
               ELSE heap'[id] = heap[id]]_vars

\* update_set took a classifier to an experience above 1/beta, where the step
\* beta differs from 1/experience, after updates that moved its error, its
\* prediction and its action_set_size, and left a classifier out of the set.
UpdatedInBothPhases ==
    /\ last.op = "update_set"
    /\ \E id \in Range(last.learned_set), out \in Range(pop) :
          /\ out \notin Range(last.learned_set)
          /\ heap[id].experience = MaxExperience
          /\ RLt(Q(heap[id].experience), RDiv(One, beta)) = FALSE
          /\ Frac(1, heap[id].experience) # beta
          /\ RLt(Zero, heap[id].epsilon)
          /\ RLt(Zero, heap[id].prediction) /\ RLt(heap[id].prediction, One)
          /\ RLt(One, heap[id].action_set_size)

-----------------------------------------------------------------------------
(* Invariants of the classifiers (Spec).                                   *)

\* The classifiers held by the Population or by a pending action set.
HeldClassifiers ==
    Range(pop)
    \cup (IF current_state.action_set = NoActionSet THEN {}
          ELSE Range(current_state.action_set))
    \cup (IF prev_state.action_set = NoActionSet THEN {}
          ELSE Range(prev_state.action_set))

\* C25: in every reachable state every classifier held by the Population or
\* by a pending action set has numerosity >= 1, action_set_size >= 1,
\* epsilon >= 0 and fitness >= 0.
HeldClassifiersWellFormed ==
    \A id \in HeldClassifiers :
        /\ heap[id].numerosity >= 1
        /\ RLe(One, heap[id].action_set_size)
        /\ RLe(Zero, heap[id].epsilon)
        /\ RLe(Zero, heap[id].fitness)

\* A reward call learned, ran the GA and trimmed the Population, and left it
\* holding a record of numerosity above one with a positive error next to a
\* pending action set.
WellFormedAfterEveryMechanism ==
    /\ last.op = "reward"
    /\ last.err = "ok"
    /\ last.ga_ran
    /\ last.removed > 0
    /\ \E id \in Range(pop) : heap[id].numerosity > 1 /\ RLt(Zero, heap[id].epsilon)
    /\ \E id \in HeldClassifiers : id \notin Range(pop)

-----------------------------------------------------------------------------
(* The credited action set (Spec).                                         *)

\* C26: when reward applies the learning update and the action-set
\* subsumption, every classifier of the action set being credited is a
\* record the Population holds at that moment.
CreditedMembersHeldByPopulation ==
    [][(last'.op = "reward" /\ last'.err # "AssertionError") =>
         Range(last'.learned_set) \subseteq Range(pop)]_vars

\* C27: in an episode of run/reward pairs that ends with a reward call with
\* is_end_of_problem, the action set of every step is passed to the learning
\* component exactly once.  reward makes one update_set call and a step's
\* action set exists from its run on, so this is: every reward call credits
\* the action set of the step it answers.
EveryStepCreditedOnce ==
    [][(last'.op = "reward" /\ last'.err # "AssertionError") =>
         last'.learned_set = current_state.action_set]_vars

-----------------------------------------------------------------------------
(* The children of the genetic algorithm (GaSpec).                         *)

-----------------------------------------------------------------------------
(* Generality and matching (ConditionSpec).                                *)

\* C29: for conditions a and b of one length, if a.is_more_general(b) then
\* every state (without null values) that b matches is matched by a.
MoreGeneralMatchesSuperset ==
    [][(last'.op = "is_more_general" /\ last'.err = "ok" /\ last'.result) =>
         LET a == conditions[last'.args[1]]
             b == conditions[last'.args[2]]
         IN /\ Len(a) = Len(b)
            /\ \A state \in [1..Len(a) -> SymbolValues] :
                  Matches(b, state) => Matches(a, state)]_vars

\* is_more_general held between two conditions of the largest length of
\* which the more general one still has a specific symbol, and matches a
\* state the other does not match.
MoreGeneralMatchesMore ==
    /\ last.op = "is_more_general"
    /\ last.err = "ok"
    /\ last.result
    /\ LET a == conditions[last.args[1]]
           b == conditions[last.args[2]]
       IN /\ Len(a) = MaxConditionLen
          /\ \E i \in 1..Len(a) : a[i] # WILDCARD_CHAR
          /\ \E state \in [1..Len(a) -> SymbolValues] :
                Matches(a, state) /\ ~Matches(b, state)

-----------------------------------------------------------------------------
(* Distinct records (Spec).                                                *)

\* C30: a Population that starts without two records of equal condition and
\* action holds no two such records after any sequence of run, query and
\* reward calls.
NoDuplicateRecords ==
    \A i \in 1..Len(pop), j \in 1..Len(pop) :
        (/\ heap[pop[i]].condition = heap[pop[j]].condition
         /\ heap[pop[i]].action = heap[pop[j]].action) => i = j

\* A reward call ran the GA and inserted a child equal in condition and
\* action to a record of the Population, which holds that record once, with
\* a numerosity above one.
EqualChildMerged ==
    /\ last.op = "reward"
    /\ last.err = "ok"
    /\ last.ga_ran
    /\ \E k \in 1..Len(last.children), i \in 1..Len(pop) :
          /\ heap[pop[i]].condition = last.children[k].condition
          /\ heap[pop[i]].action = last.children[k].action
          /\ heap[pop[i]].numerosity > 1

====
